---------------------------- MODULE Spec2Model ----------------------------
(***************************************************************************)
(* A model of the node agent: the sing-box configuration synchronizer      *)
(* (Config / Inbound), the process supervisor (Core), the backend facade   *)
(* (SingBox) and the session Controller with its two transports.           *)
(*                                                                         *)
(* Three specifications share the variables:                               *)
(*   SpecSync  the synchronizer alone: a Config built by NewSingBoxConfig  *)
(*             and then driven by syncUsers / upsertUser calls;            *)
(*   SpecCore  one supervisor driven directly by concurrent callers of     *)
(*             Start, Stop and Restart;                                    *)
(*   Spec      the Controller, its Backends and their supervisors, driven  *)
(*             by concurrent transport requests.                           *)
(***************************************************************************)
EXTENDS Integers, Sequences, FiniteSets, TLC

(***************************************************************************)
(* Bounds of the model.                                                    *)
(***************************************************************************)
MaxUsers == 2        \* longest user list handed to SyncUsers
MaxInit == 2         \* longest account list found in the parsed document
MaxCalls == 3        \* calls made on the supervisor by its direct callers
MaxRequests == 3     \* Start and Stop requests served by the transports
MaxSessionCalls == 2 \* Start and Stop requests served while watchdogs run
MaxElapsed == 1      \* the clock stops this long after the last refresh
MaxTime == 3         \* the last reading of the clock
MaxLines == 6        \* lines the subprocess writes to its output streams
LogBufferSize == 2   \* capacity of the supervisor's log queue (logBufferSize)
MaxLockCalls == 2    \* Start, Stop and sync requests made while every lock user runs

VARIABLES
    config,          \* the synchronizer's Config: its ordered Inbound records
    lastOp,          \* the synchronizer call made last ("New" after construction)
    lastUser,        \* the user of that call when it was an UpsertUser
    core,            \* the supervisors (Core): handle, flags and mutex of each
    procs,           \* every OS subprocess spawned so far, by pid
    file,            \* the content of <configDir>/sing-box.json
    threads,         \* the callers: operation, position, continuation, result
    ncalls,          \* calls made so far
    ctl,             \* the Controller: backend, clientIP, cancelFunc, mu
    backends,        \* every SingBox built by StartBackend: its core and mutex
    scopes,          \* the session scopes made by New and Connect: cancelled or not
    now,             \* the wall clock, in units of the keepalive threshold
    logsChan,        \* the supervisor's bounded log queue, oldest line first
    captured,        \* lines read from the subprocess's streams so far
    received,        \* lines a subscriber has taken from the queue, in order
    captureDone      \* the capture scope is cancelled

syncVars == <<config, lastOp, lastUser>>

coreVars == <<core, procs, file, threads, ncalls>>

ctlVars == <<ctl, backends, scopes, now>>

logVars == <<logsChan, captured, received, captureDone>>

\* NewSingBoxCore: an empty queue, nothing captured.
NoLogs == logsChan = <<>> /\ captured = 0 /\ received = <<>> /\ captureDone = FALSE

NoThread == "none"

\* controller.New: no backend, no client, the scope whose cancel it keeps.
NewController ==
    [backend |-> 0, clientIP |-> "", cancelFunc |-> 1, mu |-> NoThread, lastRequest |-> 0,
     stats |-> 0]

vars ==
    <<config, lastOp, lastUser, core, procs, file, threads, ncalls, ctl, backends, scopes, now,
      logsChan, captured, received, captureDone>>

(***************************************************************************)
(* Values of the synchronizer.                                             *)
(***************************************************************************)
Tags == {"in1", "in2"}
Emails == {"a@x", "b@x"}
AllProxies == {"vmess", "vless", "trojan", "shadowsocks"}

\* common.User as the synchronizer reads it: GetEmail, GetInbounds and which
\* members of GetProxies are set.  One identity carries every credential, the
\* other only vmess; the credentials follow the identity.
ProxiesOf(email) == IF email = "a@x" THEN AllProxies ELSE {"vmess"}

Users ==
    { [email |-> e, inbounds |-> m, proxies |-> ProxiesOf(e)] : e \in Emails, m \in SUBSET Tags }

NoUser == [email |-> "", inbounds |-> {}, proxies |-> {}]

Uuid(user) == <<"uuid", user.email>>
Password(user) == <<"pw", user.email>>
Method(user) == "2022-blake3-aes-128-gcm"
Flow(user) == IF user.email = "a@x" THEN "xtls-rprx-vision" ELSE ""

\* common.EnsureBase64Password: the password in the encoding shadowsocks wants.
EnsureBase64Password(password, method) ==
    IF password[1] = "b64" THEN password ELSE <<"b64", password[2], method>>

\* Sequences over S of length at most n.
SeqsUpTo(S, n) == UNION {[1..m -> S] : m \in 0..n}

UserLists == SeqsUpTo(Users, MaxUsers)

\* strings.ToLower on the protocol names the documents use.
ToLower(s) ==
    CASE s = "VLESS" -> "vless"
      [] s = "VMess" -> "vmess"
      [] OTHER -> s

\* An entry of a users array: a JSON object (an account) or any other value.
IsMap(entry) == "name" \in DOMAIN entry
Junk == [junk |-> TRUE]
StaleAccount(name) == [name |-> name, uuid |-> <<"uuid", "old">>]

\* The users field of an inbound map: missing, null, or an array.
UsersAbsent == [kind |-> "absent", list |-> <<>>]
UsersNull == [kind |-> "null", list |-> <<>>]
UsersList(l) == [kind |-> "list", list |-> l]

(***************************************************************************)
(* Documents handed to NewSingBoxConfig.                                   *)
(***************************************************************************)
InitEntries == {StaleAccount("a@x"), StaleAccount("z@x")}

UsersFields ==
    {UsersAbsent, UsersNull, UsersList(<<Junk>>)}
        \cup {UsersList(l) : l \in SeqsUpTo(InitEntries, MaxInit)}

\* The second entry names its protocol under "type" or under the legacy "protocol".
SecondProtocols ==
    { <<"trojan", "">>, <<"", "VLESS">>, <<"shadowsocks", "">>, <<"http", "">> }

Entry(tag, type, protocol, users) ==
    [isMap |-> TRUE, tag |-> tag, type |-> type, protocol |-> protocol, users |-> users]

Documents ==
    { [kind |-> "object", hasInbounds |-> TRUE,
       inbounds |-> << Entry("in1", "vmess", "", u1), Entry("in2", p[1], p[2], u2) >>] :
         u1 \in UsersFields, u2 \in UsersFields, p \in SecondProtocols }

NoConfig == [inbounds |-> <<>>]

(***************************************************************************)
(* The synchronizer.                                                       *)
(***************************************************************************)
\* One Inbound built from one entry of the inbounds array.
NewInbound(entry, exclude) ==
    [tag |-> entry.tag,
     protocol |-> ToLower(IF entry.type = "" THEN entry.protocol ELSE entry.type),
     exclude |-> entry.tag \in exclude,
     users |-> IF entry.users.kind = "absent" THEN UsersList(<<>>) ELSE entry.users]

NewSingBoxConfig(document, exclude) ==
    IF document.kind = "empty"
    THEN [err |-> "sing-box config is empty", cfg |-> NoConfig]
    ELSE IF document.kind = "unparsable"
    THEN [err |-> "json unmarshal error", cfg |-> NoConfig]
    ELSE IF ~document.hasInbounds
    THEN [err |-> "sing-box config doesn't have inbounds section", cfg |-> NoConfig]
    ELSE LET maps == SelectSeq(document.inbounds, LAMBDA e : e.isMap)
         IN [err |-> "",
             cfg |-> [inbounds |-> [k \in DOMAIN maps |-> NewInbound(maps[k], exclude)]]]

shouldAttachUser_AnyTag(user, inboundTag) == user.inbounds # {}

shouldAttachUser(user, inboundTag) ==
    IF user.inbounds = {} THEN FALSE ELSE inboundTag \in user.inbounds

\* nil: no account for this user on this inbound.
NoAccount == [nil |-> TRUE]

buildAccount(i, user) ==
    CASE i.protocol = "vmess" /\ "vmess" \in user.proxies ->
            [name |-> user.email, uuid |-> Uuid(user)]
      [] i.protocol = "vless" /\ "vless" \in user.proxies ->
            IF Flow(user) # ""
            THEN [name |-> user.email, uuid |-> Uuid(user), flow |-> Flow(user)]
            ELSE [name |-> user.email, uuid |-> Uuid(user)]
      [] i.protocol = "trojan" /\ "trojan" \in user.proxies ->
            [name |-> user.email, password |-> Password(user)]
      [] i.protocol = "shadowsocks" /\ "shadowsocks" \in user.proxies ->
            [name |-> user.email,
             password |-> EnsureBase64Password(Password(user), Method(user)),
             method |-> Method(user)]
      [] OTHER -> NoAccount

\* The accounts of raw["users"]: the typed list, or the array's objects, or none.
ensureUsersLocked(i) ==
    IF i.users.kind = "list" THEN SelectSeq(i.users.list, IsMap) ELSE <<>>

setUsers(i, users) == [i EXCEPT !.users = UsersList(users)]

appendUser(i, account) ==
    IF account = NoAccount THEN i
    ELSE [i EXCEPT !.users = UsersList(Append(ensureUsersLocked(i), account))]

\* user["name"].(string): the empty string when the entry has no name.
AccountName(account) == IF "name" \in DOMAIN account THEN account.name ELSE ""

removeUser_DropAll(i, email) == [i EXCEPT !.users = UsersList(<<>>)]

removeUser(i, email) ==
    [i EXCEPT !.users =
        UsersList(SelectSeq(ensureUsersLocked(i), LAMBDA a : AccountName(a) # email))]

\* The accounts Inbound.syncUsers collects from users[from..], in list order.
RECURSIVE CollectAccounts(_, _, _)
CollectAccounts(i, users, from) ==
    IF from > Len(users) THEN <<>>
    ELSE LET user == users[from]
             rest == CollectAccounts(i, users, from + 1)
         IN IF ~shouldAttachUser(user, i.tag) THEN rest
            ELSE IF buildAccount(i, user) = NoAccount THEN rest
            ELSE <<buildAccount(i, user)>> \o rest

InboundSyncUsers(i, users) == setUsers(i, CollectAccounts(i, users, 1))

InboundUpsertUser_KeepOld(i, user) ==
    IF i.exclude THEN i
    ELSE IF ~shouldAttachUser(user, i.tag) THEN removeUser(i, user.email)
    ELSE appendUser(i, buildAccount(i, user))

InboundUpsertUser(i, user) ==
    IF i.exclude THEN i
    ELSE LET removed == removeUser(i, user.email)
         IN IF ~shouldAttachUser(user, i.tag) THEN removed
            ELSE appendUser(removed, buildAccount(removed, user))

ConfigSyncUsers_All(c, users) ==
    [c EXCEPT !.inbounds = [k \in DOMAIN c.inbounds |-> InboundSyncUsers(c.inbounds[k], users)]]

ConfigSyncUsers(c, users) ==
    [c EXCEPT !.inbounds =
        [k \in DOMAIN c.inbounds |->
            IF c.inbounds[k].exclude THEN c.inbounds[k]
            ELSE InboundSyncUsers(c.inbounds[k], users)]]

ConfigUpsertUser(c, user) ==
    [c EXCEPT !.inbounds = [k \in DOMAIN c.inbounds |-> InboundUpsertUser(c.inbounds[k], user)]]

(***************************************************************************)
(* SpecSync: a Config after construction, then any sequence of calls.      *)
(***************************************************************************)
SyncInit ==
    /\ \E document \in Documents, exclude \in SUBSET Tags :
          config = NewSingBoxConfig(document, exclude).cfg
    /\ lastOp = "New"
    /\ lastUser = NoUser
    /\ core = <<>> /\ procs = <<>> /\ file = 0 /\ threads = <<>> /\ ncalls = 0
    /\ ctl = NewController /\ backends = <<>> /\ scopes = <<FALSE>> /\ now = 0
    /\ NoLogs

SyncUsers(users) ==
    /\ config' = ConfigSyncUsers(config, users)
    /\ lastOp' = "SyncUsers"
    /\ lastUser' = NoUser
    /\ UNCHANGED <<coreVars, ctlVars, logVars>>

UpsertUser(user) ==
    /\ config' = ConfigUpsertUser(config, user)
    /\ lastOp' = "UpsertUser"
    /\ lastUser' = user
    /\ UNCHANGED <<coreVars, ctlVars, logVars>>

SyncNext ==
    \/ \E users \in UserLists : SyncUsers(users)
    \/ \E user \in Users : UpsertUser(user)

SpecSync == SyncInit /\ [][SyncNext]_vars

(***************************************************************************)
(* Properties of the synchronizer (SpecSync).                              *)
(***************************************************************************)
\* The entries of an inbound's users field as the document would serialize them.
EntriesOf(i) == IF i.users.kind = "list" THEN i.users.list ELSE <<>>

CountName(list, name) == Cardinality({j \in DOMAIN list : AccountName(list[j]) = name})

OtherNames(list, name) == SelectSeq(list, LAMBDA a : AccountName(a) # name)

\* Every name an entry can carry.
Names == Emails \cup {"z@x", ""}

\* The user's membership names the inbound and the user carries the credential
\* of the inbound's protocol.
Qualifies(user, i) == i.tag \in user.inbounds /\ i.protocol \in user.proxies

\* C6: after SyncUsers(users) every non-excluded inbound's account list holds
\* exactly one account per list entry whose membership names the inbound's tag
\* and whose credentials match its protocol, and nothing else, whatever it held
\* before; a vmess account is {name, uuid}; every excluded inbound is as it was.
C6_SyncUsersExact ==
    \A users \in UserLists :
        LET c2 == ConfigSyncUsers(config, users)
        IN \A k \in DOMAIN config.inbounds :
              LET i == config.inbounds[k]
                  i2 == c2.inbounds[k]
                  q == {j \in DOMAIN users : Qualifies(users[j], i)}
              IN IF i.exclude THEN i2 = i
                 ELSE /\ i2.users.kind = "list"
                      /\ Len(i2.users.list) = Cardinality(q)
                      /\ \A n \in Names :
                            CountName(i2.users.list, n)
                              = Cardinality({j \in q : users[j].email = n})
                      /\ i.protocol = "vmess" =>
                            \A j \in DOMAIN i2.users.list :
                                i2.users.list[j]
                                  = [name |-> i2.users.list[j].name,
                                     uuid |-> <<"uuid", i2.users.list[j].name>>]

\* A SyncUsers call has filled the first inbound with the one qualifying user
\* and left the excluded second inbound with the document's account.
C6_Witness ==
    /\ lastOp = "SyncUsers"
    /\ ~config.inbounds[1].exclude
    /\ config.inbounds[1].users = UsersList(<<[name |-> "a@x", uuid |-> <<"uuid", "a@x">>]>>)
    /\ config.inbounds[2].exclude
    /\ config.inbounds[2].users = UsersList(<<StaleAccount("z@x")>>)

\* C7: after UpsertUser(u) no inbound, excluded or not, whose tag is outside
\* u's membership still holds an account for u's identity.
C7_UpsertRemovesEverywhere ==
    lastOp = "UpsertUser" =>
        \A k \in DOMAIN config.inbounds :
            config.inbounds[k].tag \notin lastUser.inbounds
               => CountName(EntriesOf(config.inbounds[k]), lastUser.email) = 0

\* The same for the inbounds the synchronizer manages: holds.
UpsertRemovesFromManaged ==
    \A user \in Users :
        LET c2 == ConfigUpsertUser(config, user)
        IN \A k \in DOMAIN c2.inbounds :
              (~c2.inbounds[k].exclude /\ c2.inbounds[k].tag \notin user.inbounds)
                 => CountName(EntriesOf(c2.inbounds[k]), user.email) = 0

\* C8: after any synchronization call every inbound's account list holds at
\* most one account per identity, and no call populates an excluded inbound.
C8_AtMostOnePerIdentity ==
    /\ lastOp # "New" =>
          \A k \in DOMAIN config.inbounds : \A n \in Names \ {""} :
              CountName(EntriesOf(config.inbounds[k]), n) <= 1
    /\ \A users \in UserLists : \A k \in DOMAIN config.inbounds :
          config.inbounds[k].exclude
             => ConfigSyncUsers(config, users).inbounds[k] = config.inbounds[k]
    /\ \A user \in Users : \A k \in DOMAIN config.inbounds :
          config.inbounds[k].exclude
             => ConfigUpsertUser(config, user).inbounds[k] = config.inbounds[k]

\* C9: UpsertUser(u) twice leaves every inbound's account list as the single
\* call left it, with no duplicate account for u's identity in any inbound.
C9_UpsertIdempotentNoDuplicate ==
    lastOp = "UpsertUser" =>
        LET c2 == ConfigUpsertUser(config, lastUser)
        IN /\ c2 = config
           /\ \A k \in DOMAIN c2.inbounds :
                 CountName(EntriesOf(c2.inbounds[k]), lastUser.email) <= 1

\* The same with the duplicates counted only in the inbounds UpsertUser writes: holds.
UpsertIdempotentManaged ==
    \A user \in Users :
        LET c1 == ConfigUpsertUser(config, user)
            c2 == ConfigUpsertUser(c1, user)
        IN /\ c2 = c1
           /\ \A k \in DOMAIN c2.inbounds :
                 \/ c2.inbounds[k].exclude /\ c2.inbounds[k] = config.inbounds[k]
                 \/ CountName(EntriesOf(c2.inbounds[k]), user.email) <= 1

\* The user with the tag taken out of its membership.
Reduce(user, tag) == [user EXCEPT !.inbounds = @ \ {tag}]

ReduceList(users, email, tag) ==
    [j \in DOMAIN users |->
        IF users[j].email = email THEN Reduce(users[j], tag) ELSE users[j]]

\* What taking tag out of the membership of email may change between c1 and c2:
\* the identity is gone from the non-excluded inbound of that tag; every other
\* inbound holds as many accounts of the identity as before; the accounts of
\* the other identities are the same, in the same order, in every inbound; an
\* excluded inbound is as it was.
RemovalFrame(c1, c2, email, tag) ==
    \A k \in DOMAIN c1.inbounds :
        LET i1 == c1.inbounds[k]
            i2 == c2.inbounds[k]
        IN /\ (i1.tag = tag /\ ~i1.exclude) => CountName(EntriesOf(i2), email) = 0
           /\ i1.tag # tag =>
                 CountName(EntriesOf(i2), email) = CountName(EntriesOf(i1), email)
           /\ OtherNames(EntriesOf(i2), email) = OtherNames(EntriesOf(i1), email)
           /\ i1.exclude => i2 = i1

C20_UsersAlwaysList ==
    \A k \in DOMAIN config.inbounds : config.inbounds[k].users.kind = "list"

\* What the code keeps: an inbound whose users field is not a list is one whose
\* document entry held null there, and it is excluded or not yet synchronized.
UsersListUnlessNullKept ==
    \A k \in DOMAIN config.inbounds :
        LET i == config.inbounds[k]
        IN i.users.kind # "list" =>
              /\ i.users = UsersNull
              /\ i.exclude \/ lastOp = "New"

(***************************************************************************)
(* The process supervisor (Core).                                          *)
(*                                                                         *)
(* A caller is at a position pc of the method it runs; stack holds the     *)
(* positions its callers continue at.  A method that takes Core.mu and     *)
(* gives it back without waiting in between is one step; Stop keeps the    *)
(* mutex while it waits for the subprocess, so its wait is a step of its   *)
(* own and core[k].mu names the holder meanwhile.                          *)
(***************************************************************************)
Ok == "ok"
ErrAlreadyRunning == "sing-box is already running"
ErrRestarting == "sing-box is already restarting"
ErrWrite == "write config file failed"
ErrSpawn == "start process failed"

CoreCallers == {"t1", "t2"}

\* NewSingBoxCore: no handle, no restart in flight; Start has not run.
NewSingBoxCore ==
    [process |-> 0, restarting |-> FALSE, cancelFunc |-> 0, startTime |-> 0, mu |-> NoThread]

IdleThread ==
    [op |-> "", pc |-> "idle", stack |-> <<>>, core |-> 0, cfg |-> 0, ret |-> "", res |-> "",
     spawned |-> 0, stopped |-> 0, overlap |-> {}, b |-> 0, variant |-> "",
     keepAlive |-> 0, scope |-> 0, seen |-> 0, type |-> "", document |-> "",
     file0 |-> 0, pid0 |-> 0]

\* A subprocess as cmd.Start leaves it.
NewProc(k) ==
    [core |-> k, alive |-> TRUE, killed |-> FALSE, reaped |-> FALSE, warned |-> FALSE,
     captureCancelled |-> FALSE]

\* The caller returns result: to the frame below, or to whoever made the call.
Return(th, result) ==
    IF th.stack = <<>>
    THEN [th EXCEPT !.pc = "idle", !.ret = result, !.res = result]
    ELSE [th EXCEPT !.pc = Head(th.stack), !.stack = Tail(th.stack), !.ret = result]

MuFree(k) == core[k].mu = NoThread

\* c.process != nil && c.process.Process != nil
AlreadyRunning_Never(k) == FALSE

AlreadyRunning(k) == core[k].process # 0

Restarting_Never(k) == FALSE

Restarting(k) == core[k].restarting

\* Core.PID and Core.Started, as a caller that takes the mutex now reads them.
\* ProcessState is written by the cmd.Wait goroutine outside the mutex: Reap
\* is the moment that write becomes visible to Started, any time after the exit.
PID(k) == IF core[k].process = 0 THEN 0 ELSE core[k].process

Started(k) ==
    IF core[k].process = 0 THEN FALSE ELSE ~procs[core[k].process].reaped

\* Core.Start, first part: cfg.ToBytes and writeConfigFile, before the mutex.
StartWrite(t) ==
    /\ threads[t].pc = "start_write"
    /\ \/ /\ file' = threads[t].cfg
          /\ threads' = [threads EXCEPT ![t].pc = "start_lock"]
       \/ /\ threads' = [threads EXCEPT ![t] = Return(@, ErrWrite)]
          /\ UNCHANGED file
    /\ UNCHANGED <<core, procs, ncalls, syncVars, logVars, ctlVars>>

\* Core.Start, under the mutex: the handle check, then pipes and cmd.Start.
StartLocked(t) ==
    LET k == threads[t].core
        pid == Len(procs) + 1
    IN /\ threads[t].pc = "start_lock"
       /\ MuFree(k)
       /\ IF AlreadyRunning(k)
          THEN /\ threads' = [threads EXCEPT ![t] = Return(@, ErrAlreadyRunning)]
               /\ UNCHANGED <<core, procs>>
          ELSE \/ /\ threads' = [threads EXCEPT ![t] = Return(@, ErrSpawn)]
                  /\ UNCHANGED <<core, procs>>
               \/ /\ procs' = Append(procs, NewProc(k))
                  /\ core' = [core EXCEPT ![k].process = pid, ![k].cancelFunc = pid,
                                          ![k].startTime = pid]
                  /\ threads' = [threads EXCEPT
                        ![t] = Return([@ EXCEPT !.spawned = @ + 1], Ok)]
       /\ UNCHANGED <<file, ncalls, syncVars, logVars, ctlVars>>

\* The log-capture scope of core k cancelled, when it has one.
CancelCapture(k) ==
    IF core[k].cancelFunc = 0 THEN procs
    ELSE [procs EXCEPT ![core[k].cancelFunc].captureCancelled = TRUE]

\* Core.Stop up to its wait: cancel the capture scope, return when nothing is
\* tracked, else signal the subprocess and wait, the mutex held.
StopLock(t) ==
    LET k == threads[t].core
    IN /\ threads[t].pc = "stop_lock"
       /\ MuFree(k)
       /\ IF core[k].process = 0
          THEN /\ procs' = CancelCapture(k)
               /\ core' = [core EXCEPT ![k].cancelFunc = 0]
               /\ threads' = [threads EXCEPT
                     ![t] = Return([@ EXCEPT !.stopped = @ + 1], Ok)]
          ELSE /\ procs' = [CancelCapture(k) EXCEPT ![core[k].process].killed = TRUE]
               /\ core' = [core EXCEPT ![k].cancelFunc = 0, ![k].mu = t]
               /\ threads' = [threads EXCEPT ![t].pc = "stop_wait", ![t].stopped = @ + 1]
       /\ UNCHANGED <<file, ncalls, syncVars, logVars, ctlVars>>

\* case <-done: the subprocess has exited; the handle is cleared.
StopWaitDone_NoWait(t) ==
    LET k == threads[t].core
    IN /\ threads[t].pc = "stop_wait"
       /\ core' = [core EXCEPT ![k].process = 0, ![k].mu = NoThread]
       /\ threads' = [threads EXCEPT ![t] = Return(@, Ok)]
       /\ UNCHANGED <<procs, file, ncalls, syncVars, logVars, ctlVars>>

StopWaitDone(t) ==
    LET k == threads[t].core
    IN /\ threads[t].pc = "stop_wait"
       /\ ~procs[core[k].process].alive
       /\ core' = [core EXCEPT ![k].process = 0, ![k].mu = NoThread]
       /\ threads' = [threads EXCEPT ![t] = Return(@, Ok)]
       /\ UNCHANGED <<procs, file, ncalls, syncVars, logVars, ctlVars>>

\* case <-time.After(5s): a warning is logged; the handle is cleared all the same.
StopWaitTimeout_KeepHandle(t) ==
    LET k == threads[t].core
    IN /\ threads[t].pc = "stop_wait"
       /\ procs' = [procs EXCEPT ![core[k].process].warned = TRUE]
       /\ core' = [core EXCEPT ![k].mu = NoThread]
       /\ threads' = [threads EXCEPT ![t] = Return(@, Ok)]
       /\ UNCHANGED <<file, ncalls, syncVars, logVars, ctlVars>>

StopWaitTimeout(t) ==
    LET k == threads[t].core
    IN /\ threads[t].pc = "stop_wait"
       /\ procs' = [procs EXCEPT ![core[k].process].warned = TRUE]
       /\ core' = [core EXCEPT ![k].process = 0, ![k].mu = NoThread]
       /\ threads' = [threads EXCEPT ![t] = Return(@, Ok)]
       /\ UNCHANGED <<file, ncalls, syncVars, logVars, ctlVars>>

\* Core.Restart up to its Stop: reject when a restart is in flight, else raise
\* the flag; Stop, then Start, then the deferred reset follow.
RestartCheck(t) ==
    LET k == threads[t].core
    IN /\ threads[t].pc = "restart_check"
       /\ MuFree(k)
       /\ IF Restarting(k)
          THEN /\ threads' = [threads EXCEPT ![t] = Return(@, ErrRestarting)]
               /\ UNCHANGED core
          ELSE /\ core' = [core EXCEPT ![k].restarting = TRUE]
               /\ threads' = [threads EXCEPT
                     ![t].pc = "stop_lock",
                     ![t].stack = <<"start_write", "restart_defer">> \o @]
       /\ UNCHANGED <<procs, file, ncalls, syncVars, logVars, ctlVars>>

\* The deferred function of Restart: the flag is lowered, Start's result returned.
RestartDefer(t) ==
    LET k == threads[t].core
    IN /\ threads[t].pc = "restart_defer"
       /\ MuFree(k)
       /\ core' = [core EXCEPT ![k].restarting = FALSE]
       /\ threads' = [threads EXCEPT ![t] = Return(@, threads[t].ret)]
       /\ UNCHANGED <<procs, file, ncalls, syncVars, logVars, ctlVars>>

\* The subprocess exits: killed, crashed or done.
ProcExit(p) ==
    /\ procs[p].alive
    /\ procs' = [procs EXCEPT ![p].alive = FALSE]
    /\ UNCHANGED <<core, file, threads, ncalls, syncVars, logVars, ctlVars>>

\* The goroutine Start left in cmd.Wait returns: ProcessState is set.
Reap(p) ==
    /\ ~procs[p].alive
    /\ ~procs[p].reaped
    /\ procs' = [procs EXCEPT ![p].reaped = TRUE]
    /\ UNCHANGED <<core, file, threads, ncalls, syncVars, logVars, ctlVars>>

(***************************************************************************)
(* SpecCore: one supervisor after NewSingBoxCore, its methods called by    *)
(* two concurrent callers.                                                 *)
(***************************************************************************)
\* A caller invokes a method of the supervisor; the n-th call hands over the n-th
\* configuration.  overlap records the methods of the other caller that were in
\* flight at some time during the call.
Call(t, op, pc) ==
    LET busy == {u \in DOMAIN threads : u # t /\ threads[u].pc # "idle"}
    IN /\ threads[t].pc = "idle"
       /\ ncalls < MaxCalls
       /\ ncalls' = ncalls + 1
       /\ threads' = [u \in DOMAIN threads |->
             IF u = t
             THEN [IdleThread EXCEPT !.op = op, !.pc = pc, !.core = 1, !.cfg = ncalls + 1,
                                     !.file0 = file,
                                     !.overlap = {threads[b].op : b \in busy}]
             ELSE IF u \in busy THEN [threads[u] EXCEPT !.overlap = @ \cup {op}]
             ELSE threads[u]]
       /\ UNCHANGED <<core, procs, file, syncVars, logVars, ctlVars>>

CallStart(t) == Call(t, "Start", "start_write")

CallStop(t) == Call(t, "Stop", "stop_lock")

CallRestart(t) == Call(t, "Restart", "restart_check")

CoreInit ==
    /\ config = NoConfig /\ lastOp = "New" /\ lastUser = NoUser
    /\ core = <<NewSingBoxCore>>
    /\ procs = <<>>
    /\ file = 0
    /\ threads = [t \in CoreCallers |-> IdleThread]
    /\ ncalls = 0
    /\ ctl = NewController /\ backends = <<>> /\ scopes = <<FALSE>> /\ now = 0
    /\ NoLogs

CoreNext ==
    \/ \E t \in CoreCallers : CallStart(t)
    \/ \E t \in CoreCallers : CallStop(t)
    \/ \E t \in CoreCallers : CallRestart(t)
    \/ \E t \in CoreCallers : StartWrite(t)
    \/ \E t \in CoreCallers : StartLocked(t)
    \/ \E t \in CoreCallers : StopLock(t)
    \/ \E t \in CoreCallers : StopWaitDone(t)
    \/ \E t \in CoreCallers : StopWaitTimeout(t)
    \/ \E t \in CoreCallers : RestartCheck(t)
    \/ \E t \in CoreCallers : RestartDefer(t)
    \/ \E p \in DOMAIN procs : ProcExit(p)
    \/ \E p \in DOMAIN procs : Reap(p)

SpecCore == CoreInit /\ [][CoreNext]_vars

(***************************************************************************)
(* Properties of the supervisor (SpecCore).                                *)
(***************************************************************************)
AliveOf(k) == {p \in DOMAIN procs : procs[p].core = k /\ procs[p].alive}

\* C2 as claimed: at most one subprocess spawned by a supervisor is alive at
\* any instant, also when a Stop timed out and a Start followed.
C2_AtMostOneAlive == \A k \in DOMAIN core : Cardinality(AliveOf(k)) <= 1

\* C2 as amended: every live subprocess of a supervisor is the one it tracks
\* or one a Stop gave up on at its timeout (the warning was logged for it); so
\* at most one live subprocess has not been given up on.
C2_AliveTrackedOrAbandoned ==
    \A k \in DOMAIN core :
        /\ \A p \in AliveOf(k) : core[k].process = p \/ procs[p].warned
        /\ Cardinality({p \in AliveOf(k) : ~procs[p].warned}) <= 1

\* A Stop gave up on a subprocess that is still alive while the supervisor
\* tracks a second live one.
C2_Witness ==
    \E p, q \in DOMAIN procs :
        /\ p # q /\ procs[p].core = procs[q].core
        /\ procs[p].alive /\ procs[p].warned
        /\ procs[q].alive /\ core[procs[q].core].process = q

\* The caller is between Restart's raising and lowering of the flag.
InCycle(t) == threads[t].op = "Restart" /\ threads[t].pc \notin {"idle", "restart_check"}

\* The last calls of t and u were Restarts that ran concurrently, with no other
\* call in flight beside them, and have returned.
BothRestartsReturned(t, u) ==
    /\ t # u
    /\ threads[t].op = "Restart" /\ threads[t].pc = "idle"
    /\ threads[t].overlap = {"Restart"}
    /\ threads[u].op = "Restart" /\ threads[u].pc = "idle"
    /\ threads[u].overlap = {"Restart"}

LaunchFailed(t) == threads[t].res \in {ErrWrite, ErrSpawn}

\* C3 as claimed, for runs in which the launch itself does not fail: of two
\* concurrent Restarts exactly one performs the cycle and succeeds, the other
\* is rejected without stopping or starting anything, and the supervisor ends
\* Running, started exactly once.
C3_ExactlyOneRestarts ==
    \A t, u \in DOMAIN threads :
        (BothRestartsReturned(t, u) /\ ~LaunchFailed(t) /\ ~LaunchFailed(u)) =>
            \E w \in {t, u} : \E o \in {t, u} \ {w} :
                /\ threads[w].res = Ok /\ threads[w].spawned = 1
                /\ threads[o].res = ErrRestarting
                /\ threads[o].spawned = 0 /\ threads[o].stopped = 0
                /\ core[threads[w].core].process # 0

\* C3 as amended: two restart cycles never overlap and the flag is up exactly
\* while a cycle runs; a Restart that finds the flag up returns "already
\* restarting" having stopped and started nothing.  Of two concurrent Restarts
\* at least one performs the cycle; when the other is rejected and the cycle's
\* Start succeeds the supervisor ends Running, started exactly once; when
\* neither meets the other's cycle both perform it, one after the other.
C3_RestartsNeverOverlap ==
    /\ \A k \in DOMAIN core :
          LET cycles == {t \in DOMAIN threads : threads[t].core = k /\ InCycle(t)}
          IN /\ Cardinality(cycles) <= 1
             /\ core[k].restarting <=> cycles # {}
    /\ \A t \in DOMAIN threads :
          (threads[t].op = "Restart" /\ threads[t].pc = "idle"
             /\ threads[t].res = ErrRestarting)
            => threads[t].spawned = 0 /\ threads[t].stopped = 0
    /\ \A t, u \in DOMAIN threads :
          BothRestartsReturned(t, u) =>
            /\ ~(threads[t].res = ErrRestarting /\ threads[u].res = ErrRestarting)
            /\ (threads[t].res = Ok /\ threads[u].res = ErrRestarting) =>
                  /\ threads[t].spawned = 1 /\ threads[t].stopped = 1
                  /\ core[threads[t].core].process # 0
            /\ (threads[t].res = Ok /\ threads[u].res = Ok) =>
                  /\ threads[t].spawned = 1 /\ threads[u].spawned = 1
                  /\ core[threads[t].core].process # 0

\* Two concurrent Restarts have returned, one having restarted, one rejected.
C3_Witness ==
    \E t, u \in DOMAIN threads :
        /\ BothRestartsReturned(t, u)
        /\ threads[t].res = Ok /\ threads[u].res = ErrRestarting
        /\ core[threads[t].core].process # 0

\* C4: a Start that finds a handle tracked returns "already running" (its
\* configuration write having succeeded; a failed write returns its own error
\* before), spawns nothing and leaves handle, capture scope and start time.
C4_StartOnRunningFails ==
    [][\A t \in DOMAIN threads :
          LET k == threads[t].core
          IN /\ (threads[t].pc = "start_lock" /\ threads'[t].pc # "start_lock"
                   /\ core[k].process # 0)
                => /\ threads'[t].ret = ErrAlreadyRunning
                   /\ core' = core
                   /\ procs' = procs
             /\ (threads[t].pc = "start_write" /\ threads'[t].pc # "start_write"
                   /\ core[k].process # 0)
                => /\ threads'[t].ret = ErrWrite \/ threads'[t].pc = "start_lock"
                   /\ core' = core
                   /\ procs' = procs
      ]_vars

\* A Start call has been rejected and the subprocess of the first Start is
\* still tracked, alive and captured, under its own start time.
C4_Witness ==
    \E t \in DOMAIN threads :
        LET k == threads[t].core
        IN /\ threads[t].op = "Start" /\ threads[t].pc = "idle"
           /\ threads[t].res = ErrAlreadyRunning
           /\ core[k].process # 0
           /\ procs[core[k].process].alive
           /\ ~procs[core[k].process].captureCancelled
           /\ core[k].cancelFunc = core[k].process
           /\ core[k].startTime = core[k].process

\* C14 as claimed, for the supervisor: a Start that is rejected as already
\* running, no other call having been in flight beside it, leaves the
\* configuration file as it was when the call was made, and the supervisor and
\* the subprocesses unchanged; a Restart rejected as already restarting changes
\* nothing.
C14_ConflictLeavesStateUnchanged ==
    [][\A t \in DOMAIN threads :
          /\ (/\ threads[t].op = "Start" /\ threads[t].pc = "start_lock"
              /\ threads'[t].pc = "idle" /\ threads'[t].res = ErrAlreadyRunning
              /\ threads[t].overlap = {})
             => /\ file' = threads[t].file0
                /\ core' = core
                /\ procs' = procs
          /\ (/\ threads[t].op = "Restart" /\ threads[t].pc = "restart_check"
              /\ threads'[t].pc = "idle" /\ threads'[t].res = ErrRestarting)
             => UNCHANGED <<core, procs, file>>
      ]_vars

\* What the code keeps in the rejected Start: everything but the file.
ConflictLeavesSupervisorUnchanged ==
    [][\A t \in DOMAIN threads :
          (/\ threads[t].pc \in {"start_lock", "restart_check"}
           /\ threads'[t].pc = "idle"
           /\ threads'[t].res \in {ErrAlreadyRunning, ErrRestarting})
          => UNCHANGED <<core, procs, file>>
      ]_vars

\* C5: whenever Stop returns (nothing tracked, the subprocess gone, or the
\* timeout), no handle is tracked, PID() is 0, Started() is false, the mutex
\* is free and no error comes back; and a Start that then reaches its check
\* with no handle tracked is not rejected as already running.
C5_StopLeavesUnstarted ==
    [][\A t \in DOMAIN threads :
          LET k == threads[t].core
          IN /\ (threads[t].pc \in {"stop_lock", "stop_wait"}
                   /\ threads'[t].pc \notin {"stop_lock", "stop_wait"})
                => /\ core'[k].process = 0
                   /\ PID(k)' = 0
                   /\ ~Started(k)'
                   /\ core'[k].mu = NoThread
                   /\ threads'[t].ret = Ok
             /\ (threads[t].pc = "start_lock" /\ threads'[t].pc # "start_lock"
                   /\ core[k].process = 0)
                => threads'[t].ret # ErrAlreadyRunning
      ]_vars

\* A Stop has timed out on a subprocess that is still alive, and a later Start
\* has put a new subprocess in its place.
C5_Witness ==
    \E p \in DOMAIN procs :
        LET k == procs[p].core
        IN /\ procs[p].alive /\ procs[p].warned /\ procs[p].killed
           /\ core[k].process \notin {0, p}

\* C24 as claimed: in every state, a caller that takes the supervisor's mutex
\* finds Started() false exactly when the supervisor is Unstarted: PID() is 0
\* and a Start would not be rejected as already running.
C24_StartedAgreesWithState ==
    \A k \in DOMAIN core :
        MuFree(k) => (~Started(k) <=> (PID(k) = 0 /\ ~AlreadyRunning(k)))

\* What does hold: PID() and the rejection of Start agree with each other, and
\* a supervisor whose Started() is true tracks a subprocess.
StartedImpliesTracked ==
    \A k \in DOMAIN core :
        /\ (PID(k) = 0) <=> ~AlreadyRunning(k)
        /\ Started(k) => AlreadyRunning(k)

(***************************************************************************)
(* The Controller and the transports' Start and Stop handlers (Spec).      *)
(*                                                                         *)
(* A handler runs on the goroutine of its request.  Every acquisition of   *)
(* Controller.mu or SingBox.mu is a step; StartBackend keeps Controller.mu *)
(* over NewSingBox, Core.Start included, and Shutdown keeps SingBox.mu     *)
(* over Core.Stop, so ctl.mu and backends[b].mu name the holder meanwhile. *)
(***************************************************************************)
Clients == {"r1", "r2"}

ErrNew == "backend construction failed"
ErrType == "invalid backend type"

\* The goroutine Connect starts for keepAliveTracker(ctx, keepAlive), by scope.
WatchdogNames == <<"w2", "w3", "w4", "w5">>

WatchdogOf(scope) == WatchdogNames[scope - 1]

Watchdogs == {WatchdogNames[n] : n \in 1..MaxSessionCalls}

\* The SingBox NewSingBox returns around core k.
NewSingBox(k) == [core |-> k, mu |-> NoThread, keepAlive |-> 0]

CtlFree == ctl.mu = NoThread

\* A Start or Stop request arrives on one of the transports.
Request(t, op, pc, variant) ==
    /\ threads[t].pc = "idle"
    /\ ncalls < MaxRequests
    /\ ncalls' = ncalls + 1
    /\ threads' = [threads EXCEPT
          ![t] = [IdleThread EXCEPT !.op = op, !.pc = pc, !.cfg = ncalls + 1,
                                    !.variant = variant]]
    /\ UNCHANGED <<core, procs, file, syncVars, logVars, ctlVars>>

RestStart(t) == Request(t, "Start", "svc_check", "rest")

RpcStart(t) == Request(t, "Start", "svc_check", "rpc")

ServiceStop(t) == Request(t, "Stop", "disc_cancel", "")

\* Service.Start: if s.Backend() != nil { s.Disconnect() }; then Connect and
\* StartBackend (REST), or StartBackend and Connect (RPC).
ServiceCheck(t) ==
    LET plan == IF threads[t].variant = "rest" THEN <<"connect", "sb_lock">>
                ELSE <<"sb_lock", "connect">>
    IN /\ threads[t].pc = "svc_check"
       /\ CtlFree
       /\ threads' = [threads EXCEPT
             ![t] = IF ctl.backend # 0
                    THEN [@ EXCEPT !.pc = "disc_cancel", !.stack = plan]
                    ELSE [@ EXCEPT !.pc = Head(plan), !.stack = Tail(plan)]]
       /\ UNCHANGED <<core, procs, file, ncalls, syncVars, logVars, ctlVars>>

\* Controller.Connect: the timestamp, the client and a fresh session scope,
\* under the lock; the sampler runs while the scope is not cancelled (Sample),
\* and with keepAlive > 0 the watchdog of the scope starts.
Connect(t) ==
    /\ threads[t].pc = "connect"
    /\ CtlFree
    /\ scopes' = Append(scopes, FALSE)
    /\ ctl' = [ctl EXCEPT !.lastRequest = now, !.clientIP = t,
                          !.cancelFunc = Len(scopes) + 1]
    /\ threads' = [u \in DOMAIN threads |->
          IF u = t THEN Return([threads[t] EXCEPT !.scope = Len(scopes) + 1], Ok)
          ELSE IF threads[t].keepAlive > 0 /\ u = WatchdogOf(Len(scopes) + 1)
          THEN [IdleThread EXCEPT !.op = "keepAliveTracker", !.pc = "wd_wait",
                                  !.keepAlive = threads[t].keepAlive,
                                  !.scope = Len(scopes) + 1]
          ELSE threads[u]]
    /\ UNCHANGED <<core, procs, file, ncalls, syncVars, logVars, backends, now>>

\* Controller.Disconnect, c.cancelFunc(): read and called outside the lock.
DisconnectCancel(t) ==
    /\ threads[t].pc = "disc_cancel"
    /\ scopes' = [scopes EXCEPT ![ctl.cancelFunc] = TRUE]
    /\ threads' = [threads EXCEPT ![t].pc = "disc_read", ![t].seen = Len(scopes)]
    /\ UNCHANGED <<core, procs, file, ncalls, syncVars, logVars, ctl, backends, now>>

\* Controller.Disconnect: backend := c.backend under the lock.
DisconnectRead(t) ==
    /\ threads[t].pc = "disc_read"
    /\ CtlFree
    /\ threads' = [threads EXCEPT
          ![t].b = ctl.backend,
          ![t].pc = IF ctl.backend # 0 THEN "shut_lock" ELSE "disc_clear"]
    /\ UNCHANGED <<core, procs, file, ncalls, syncVars, logVars, ctlVars>>

\* SingBox.Shutdown: s.mu taken; when s.core != nil, s.core.Stop() under it.
ShutdownLock(t) ==
    LET b == threads[t].b
    IN /\ threads[t].pc = "shut_lock"
       /\ backends[b].mu = NoThread
       /\ IF backends[b].core # 0
          THEN /\ backends' = [backends EXCEPT ![b].mu = t]
               /\ threads' = [threads EXCEPT
                     ![t].core = backends[b].core,
                     ![t].pc = "stop_lock",
                     ![t].stack = <<"shut_done">> \o @]
          ELSE /\ threads' = [threads EXCEPT ![t].pc = "disc_clear"]
               /\ UNCHANGED backends
       /\ UNCHANGED <<core, procs, file, ncalls, syncVars, logVars, ctl, scopes, now>>

\* SingBox.Shutdown after Stop: s.core = nil, s.mu released.
ShutdownDone_KeepLock(t) ==
    LET b == threads[t].b
    IN /\ threads[t].pc = "shut_done"
       /\ backends' = [backends EXCEPT ![b].core = 0]
       /\ threads' = [threads EXCEPT ![t].pc = "disc_clear"]
       /\ UNCHANGED <<core, procs, file, ncalls, syncVars, logVars, ctl, scopes, now>>

ShutdownDone(t) ==
    LET b == threads[t].b
    IN /\ threads[t].pc = "shut_done"
       /\ backends' = [backends EXCEPT ![b].core = 0, ![b].mu = NoThread]
       /\ threads' = [threads EXCEPT ![t].pc = "disc_clear"]
       /\ UNCHANGED <<core, procs, file, ncalls, syncVars, logVars, ctl, scopes, now>>

\* Controller.Disconnect, last part: c.backend = nil, c.clientIP = "".
DisconnectClear(t) ==
    /\ threads[t].pc = "disc_clear"
    /\ CtlFree
    /\ ctl' = [ctl EXCEPT !.backend = 0, !.clientIP = ""]
    /\ threads' = [threads EXCEPT ![t] = Return(@, Ok)]
    /\ UNCHANGED <<core, procs, file, ncalls, syncVars, logVars, backends, scopes, now>>

\* Controller.StartBackend: the lock taken and kept; NewSingBox up to its
\* core.Start, which fails before it (no configuration in the context, a path,
\* the version probe of NewSingBoxCore) or builds a supervisor and starts it.
StartBackendLock(t) ==
    /\ threads[t].pc = "sb_lock"
    /\ CtlFree
    /\ \/ /\ threads' = [threads EXCEPT
                ![t] = [@ EXCEPT !.pc = "idle", !.stack = <<>>, !.ret = ErrNew,
                                 !.res = ErrNew]]
          /\ UNCHANGED <<core, ctl>>
       \/ /\ core' = Append(core, NewSingBoxCore)
          /\ ctl' = [ctl EXCEPT !.mu = t]
          /\ threads' = [threads EXCEPT
                ![t].core = Len(core) + 1,
                ![t].pc = "start_write",
                ![t].stack = <<"sb_done">> \o @]
    /\ UNCHANGED <<procs, file, ncalls, syncVars, logVars, backends, scopes, now>>

\* Controller.StartBackend after core.Start: on success c.backend = newBackend;
\* on failure the error goes back to the client; the lock is released.
StartBackendDone(t) ==
    /\ threads[t].pc = "sb_done"
    /\ IF threads[t].ret = Ok
       THEN /\ backends' = Append(backends,
                  [NewSingBox(threads[t].core) EXCEPT !.keepAlive = threads[t].keepAlive])
            /\ ctl' = [ctl EXCEPT !.backend = Len(backends) + 1, !.mu = NoThread]
            /\ threads' = [threads EXCEPT ![t] = Return(@, Ok)]
       ELSE /\ ctl' = [ctl EXCEPT !.mu = NoThread]
            /\ threads' = [threads EXCEPT
                  ![t] = [@ EXCEPT !.pc = "idle", !.stack = <<>>,
                                   !.res = threads[t].ret]]
            /\ UNCHANGED backends
    /\ UNCHANGED <<core, procs, file, ncalls, syncVars, logVars, scopes, now>>

Init ==
    /\ config = NoConfig /\ lastOp = "New" /\ lastUser = NoUser
    /\ core = <<>>
    /\ procs = <<>>
    /\ file = 0
    /\ threads = [t \in Clients |-> IdleThread]
    /\ ncalls = 0
    /\ ctl = NewController
    /\ backends = <<>>
    /\ scopes = <<FALSE>>
    /\ now = 0
    /\ NoLogs

Next ==
    \/ \E t \in Clients : RestStart(t)
    \/ \E t \in Clients : RpcStart(t)
    \/ \E t \in Clients : ServiceStop(t)
    \/ \E t \in Clients : ServiceCheck(t)
    \/ \E t \in Clients : Connect(t)
    \/ \E t \in Clients : DisconnectCancel(t)
    \/ \E t \in Clients : DisconnectRead(t)
    \/ \E t \in Clients : ShutdownLock(t)
    \/ \E t \in Clients : ShutdownDone(t)
    \/ \E t \in Clients : DisconnectClear(t)
    \/ \E t \in Clients : StartBackendLock(t)
    \/ \E t \in Clients : StartBackendDone(t)
    \/ \E t \in Clients : StartWrite(t)
    \/ \E t \in Clients : StartLocked(t)
    \/ \E t \in Clients : StopLock(t)
    \/ \E t \in Clients : StopWaitDone(t)
    \/ \E t \in Clients : StopWaitTimeout(t)
    \/ \E p \in DOMAIN procs : ProcExit(p)
    \/ \E p \in DOMAIN procs : Reap(p)

Spec == Init /\ [][Next]_vars

(***************************************************************************)
(* Properties of the Controller (Spec).                                    *)
(***************************************************************************)
\* The Backends whose supervisor tracks a live subprocess no Stop has signalled.
LiveBackends ==
    {b \in DOMAIN backends :
        LET k == backends[b].core
        IN /\ k # 0
           /\ core[k].process # 0
           /\ procs[core[k].process].alive
           /\ ~procs[core[k].process].killed}

\* C1 as claimed: under any interleaving of Start and Stop requests, at no
\* moment do two Backends built by StartBackend both have a live subprocess.
C1_AtMostOneBackendAlive == Cardinality(LiveBackends) <= 1

\* C21 as claimed: whenever the Controller's backend reference is empty, no
\* Backend built by StartBackend has a running subprocess.  The statement is
\* taken in its weakest reading: StartBackend has built one Backend only, so
\* no second Start request is involved.
C21_NoOrphanedBackend ==
    (ctl.backend = 0 /\ Len(backends) = 1) => LiveBackends = {}

(***************************************************************************)
(* Sessions: the whole Start handler from detectBackend on, NewRequest,    *)
(* the keepalive watchdogs, the stats sampler and the clock (SpecSession). *)
(***************************************************************************)
KeepAlives == {0, 1}

BackendTypes == {"SING_BOX", "UNKNOWN"}

\* The configuration of a Start request: empty, not JSON, an object without
\* an inbounds array, an object with one.
EmptyDocument == [kind |-> "empty", hasInbounds |-> FALSE, inbounds |-> <<>>]

UnparsableDocument == [kind |-> "unparsable", hasInbounds |-> FALSE, inbounds |-> <<>>]

NoInboundsDocument == [kind |-> "object", hasInbounds |-> FALSE, inbounds |-> <<>>]

GoodDocument ==
    [kind |-> "object", hasInbounds |-> TRUE,
     inbounds |-> <<Entry("in1", "vmess", "", UsersAbsent)>>]

StartDocuments == {EmptyDocument, UnparsableDocument, NoInboundsDocument, GoodDocument}

\* A request arrives while watchdogs may run.
SessionRequest(t, op, pc, variant, keepAlive, type, document) ==
    /\ threads[t].pc = "idle"
    /\ ncalls < MaxSessionCalls
    /\ ncalls' = ncalls + 1
    /\ threads' = [threads EXCEPT
          ![t] = [IdleThread EXCEPT !.op = op, !.pc = pc, !.cfg = ncalls + 1,
                                    !.variant = variant, !.keepAlive = keepAlive,
                                    !.type = type, !.document = document]]
    /\ UNCHANGED <<core, procs, file, syncVars, logVars, ctlVars>>

SessionStart(t) ==
    \E variant \in {"rest", "rpc"}, keepAlive \in KeepAlives, type \in BackendTypes,
       document \in StartDocuments :
        SessionRequest(t, "Start", "svc_detect", variant, keepAlive, type, document)

SessionStop(t) == SessionRequest(t, "Stop", "disc_cancel", "", 0, "", "")

\* The error of detectBackend, "" when it has none.
detectBackend_AcceptAll(type, document) == ""

detectBackend(type, document) ==
    IF type # "SING_BOX" THEN ErrType ELSE NewSingBoxConfig(document, {}).err

\* Service.Start, first statement: on an error of detectBackend the handler
\* answers with it and does nothing else.
DetectBackend(t) ==
    LET err == detectBackend(threads[t].type, threads[t].document)
    IN /\ threads[t].pc = "svc_detect"
       /\ threads' = [threads EXCEPT
             ![t] = IF err # ""
                    THEN [@ EXCEPT !.pc = "idle", !.ret = err, !.res = err]
                    ELSE [@ EXCEPT !.pc = "svc_check", !.type = "", !.document = ""]]
       /\ UNCHANGED <<core, procs, file, ncalls, syncVars, logVars, ctlVars>>

\* Controller.NewRequest: c.lastRequest = time.Now(), under the lock.
NewRequest ==
    /\ CtlFree
    /\ ctl.lastRequest # now
    /\ ctl' = [ctl EXCEPT !.lastRequest = now]
    /\ UNCHANGED <<coreVars, syncVars, logVars, backends, scopes, now>>

\* Time passes.
Tick ==
    /\ now < MaxTime
    /\ now - ctl.lastRequest < MaxElapsed
    /\ now' = now + 1
    /\ UNCHANGED <<coreVars, syncVars, logVars, ctl, backends, scopes>>

\* recordSystemStats(ctx) of scope s, one round: not cancelled, c.stats written.
Sample(s) ==
    /\ s > 1
    /\ ~scopes[s]
    /\ CtlFree
    /\ ctl.stats # s
    /\ ctl' = [ctl EXCEPT !.stats = s]
    /\ UNCHANGED <<coreVars, syncVars, logVars, backends, scopes, now>>

\* keepAliveTracker, case <-ctx.Done().
WatchdogExit(w) ==
    /\ threads[w].pc = "wd_wait"
    /\ scopes[threads[w].scope]
    /\ threads' = [threads EXCEPT ![w].pc = "done"]
    /\ UNCHANGED <<core, procs, file, ncalls, syncVars, logVars, ctlVars>>

\* keepAliveTracker, case <-ticker.C.
WatchdogTick(w) ==
    /\ threads[w].pc = "wd_wait"
    /\ ~scopes[threads[w].scope]
    /\ threads' = [threads EXCEPT ![w].pc = "wd_read"]
    /\ UNCHANGED <<core, procs, file, ncalls, syncVars, logVars, ctlVars>>

\* keepAliveTracker: lastRequest read under the lock, then compared; Disconnect
\* when the threshold has passed, and back to the select.
WatchdogRead(w) ==
    /\ threads[w].pc = "wd_read"
    /\ CtlFree
    /\ threads' = [threads EXCEPT
          ![w] = IF now - ctl.lastRequest >= threads[w].keepAlive
                 THEN [@ EXCEPT !.pc = "disc_cancel", !.stack = <<"wd_wait">>]
                 ELSE [@ EXCEPT !.pc = "wd_wait"]]
    /\ UNCHANGED <<core, procs, file, ncalls, syncVars, logVars, ctlVars>>

SessionThreads == Clients \cup Watchdogs

SessionInit ==
    /\ config = NoConfig /\ lastOp = "New" /\ lastUser = NoUser
    /\ core = <<>>
    /\ procs = <<>>
    /\ file = 0
    /\ threads = [t \in SessionThreads |->
                    IF t \in Clients THEN IdleThread ELSE [IdleThread EXCEPT !.pc = "off"]]
    /\ ncalls = 0
    /\ ctl = NewController
    /\ backends = <<>>
    /\ scopes = <<FALSE>>
    /\ now = 0
    /\ NoLogs

\* What the handlers and watchdogs do once a request is in.
SessionStep(t) ==
    \/ DetectBackend(t)
    \/ ServiceCheck(t)
    \/ Connect(t)
    \/ DisconnectCancel(t)
    \/ DisconnectRead(t)
    \/ ShutdownLock(t)
    \/ ShutdownDone(t)
    \/ DisconnectClear(t)
    \/ StartBackendLock(t)
    \/ StartBackendDone(t)
    \/ StartWrite(t)
    \/ StartLocked(t)
    \/ StopLock(t)
    \/ StopWaitDone(t)
    \/ StopWaitTimeout(t)

WatchdogStep(w) ==
    \/ WatchdogExit(w)
    \/ WatchdogTick(w)
    \/ WatchdogRead(w)

\* One client starts sessions, the other one stops them.
Starter == "r1"

Stopper == "r2"

IdleNext ==
    \/ SessionStart(Starter)
    \/ SessionStop(Stopper)
    \/ \E t \in SessionThreads : SessionStep(t)
    \/ \E w \in Watchdogs : WatchdogStep(w)
    \/ \E s \in DOMAIN scopes : Sample(s)
    \/ \E p \in DOMAIN procs : ProcExit(p)
    \/ \E p \in DOMAIN procs : Reap(p)
    \/ Tick

SessionNext ==
    \/ IdleNext
    \/ NewRequest

SpecSession == SessionInit /\ [][SessionNext]_vars

\* No NewRequest ever comes; every goroutine that can take a step eventually
\* takes one, timers fire and a signalled subprocess or Stop's timeout ends
\* the wait.
SpecIdle ==
    /\ SessionInit
    /\ [][IdleNext]_vars
    /\ \A t \in SessionThreads : WF_vars(SessionStep(t))
    /\ \A w \in Watchdogs : WF_vars(WatchdogStep(w))
    /\ WF_vars(Tick)

(***************************************************************************)
(* Properties of sessions (SpecSession, SpecIdle).                         *)
(***************************************************************************)
\* C11 as claimed: a watchdog shuts a session's Backend down only if that
\* session was started with keepaliveSeconds > 0 and, at that moment, the time
\* since the last refreshed timestamp is at least the session's threshold.
C11_KeepaliveTeardownJustified ==
    [][\A w \in Watchdogs :
          (threads[w].pc = "shut_lock" /\ threads'[w].pc = "stop_lock") =>
              LET b == threads[w].b
              IN /\ backends[b].keepAlive > 0
                 /\ now - ctl.lastRequest >= backends[b].keepAlive
      ]_vars

\* The part of C11 about open-ended sessions alone: no watchdog shuts down the
\* Backend of a session started with keepaliveSeconds == 0.
OpenEndedSessionNotTornDown ==
    [][\A w \in Watchdogs :
          (threads[w].pc = "shut_lock" /\ threads'[w].pc = "stop_lock") =>
              backends[threads[w].b].keepAlive > 0
      ]_vars

\* C12 as claimed: a Backend installed by a session start with
\* keepaliveSeconds > 0 is, when no NewRequest comes, eventually shut down and
\* no longer the Controller's backend.
C12_IdleSessionTornDown ==
    \A b \in 1..MaxSessionCalls :
        (b \in DOMAIN backends /\ backends[b].keepAlive > 0)
            ~> (b \in DOMAIN backends /\ backends[b].core = 0 /\ ctl.backend # b)

\* The Start handler t answers with the error of a failed StartBackend.
StartBackendFails(t) ==
    /\ threads[t].op = "Start"
    /\ threads[t].pc \in {"sb_lock", "sb_done"}
    /\ threads'[t].pc = "idle"
    /\ threads'[t].res # Ok

\* C13 as claimed: when Backend construction fails during a session start, the
\* Controller has no Backend, no subprocess of the attempt runs, and nothing of
\* the attempt remains: the client identity is not the attempt's and the scope
\* its Connect made (sampler, watchdog) is cancelled.
C13_FailedStartLeavesNothing ==
    [][\A t \in Clients :
          StartBackendFails(t) =>
              /\ ctl'.backend = 0
              /\ threads[t].pc = "sb_done" =>
                    \A p \in DOMAIN procs' :
                        procs'[p].core = threads[t].core => ~procs'[p].alive
              /\ ctl'.clientIP # t
              /\ threads[t].scope # 0 => scopes'[threads[t].scope]
      ]_vars

\* C16: a Start request whose configuration is empty, is not JSON or has no
\* inbounds array is answered with the configuration error; the handler makes
\* no supervisor and leaves the Controller, its Backend, the client identity
\* and the scopes as they were.
C16_BadDocumentRejected ==
    [][\A t \in Clients :
          (/\ threads[t].pc = "svc_detect" /\ threads'[t].pc # "svc_detect"
           /\ threads[t].type = "SING_BOX"
           /\ threads[t].document \in
                 {EmptyDocument, UnparsableDocument, NoInboundsDocument})
          => /\ threads'[t].pc = "idle"
             /\ threads'[t].res \notin {Ok, ""}
             /\ threads'[t].res = NewSingBoxConfig(threads[t].document, {}).err
             /\ UNCHANGED <<core, procs, file, ctl, backends, scopes>>
      ]_vars

\* A Start without inbounds array has been rejected while the session of an
\* earlier Start is in place, its subprocess tracked.
C16_Witness ==
    \E t \in Clients :
        /\ threads[t].op = "Start" /\ threads[t].pc = "idle"
        /\ threads[t].res = "sing-box config doesn't have inbounds section"
        /\ ctl.backend # 0 /\ ctl.clientIP = t
        /\ backends[ctl.backend].core # 0
        /\ core[backends[ctl.backend].core].process # 0

\* C19 as claimed: when a Disconnect completes, every scope a Connect had made
\* before that Disconnect began is cancelled, so none of their samplers and
\* watchdogs still runs.
C19_DisconnectCancelsAllTasks ==
    [][\A t \in SessionThreads :
          (threads[t].pc = "disc_clear" /\ threads'[t].pc # "disc_clear") =>
              \A s \in 2..threads[t].seen : scopes'[s]
      ]_vars

(***************************************************************************)
(* The SingBox facade under the Controller: SyncUser, SyncUsers and        *)
(* BaseInfoResponse beside Start and Stop (SpecFacade).                    *)
(***************************************************************************)
ErrNoBackend == "backend not started"
ErrNilCore == "nil pointer dereference"
ErrEmptyUser == "user payload is empty"
ErrNotInitialized == "sing-box core is not initialized"

SyncUsersCall(t) == Request(t, "SyncUsers", "sync_backend", "")

SyncUserCall(t) == Request(t, "SyncUser", "sync_backend", "")

BaseInfoCall(t) == Request(t, "BaseInfo", "bi_lock", "")

RestartCall(t) == Request(t, "Restart", "sync_backend", "")

LogsCall(t) == Request(t, "Logs", "sync_backend", "")

\* The handler of a sync request asks the Controller for its Backend.
SyncBackend(t) ==
    /\ threads[t].pc = "sync_backend"
    /\ CtlFree
    /\ threads' = [threads EXCEPT
          ![t] = IF ctl.backend = 0
                 THEN [@ EXCEPT !.pc = "idle", !.ret = ErrNoBackend, !.res = ErrNoBackend]
                 ELSE [@ EXCEPT !.pc = IF threads[t].op = "Logs" THEN "logs_lock"
                                      ELSE "sync_lock",
                                !.b = ctl.backend]]
    /\ UNCHANGED <<core, procs, file, ncalls, syncVars, logVars, ctlVars>>

RunningPid(k) ==
    IF k # 0 /\ core[k].process # 0 /\ procs[core[k].process].alive
    THEN core[k].process ELSE 0

\* SingBox.SyncUser with a nil user: rejected before s.mu is taken.
SyncUserEmpty(t) ==
    /\ threads[t].pc = "sync_lock"
    /\ threads[t].op = "SyncUser"
    /\ threads' = [threads EXCEPT
          ![t] = [@ EXCEPT !.pc = "idle", !.ret = ErrEmptyUser, !.res = ErrEmptyUser,
                           !.core = backends[threads[t].b].core,
                           !.pid0 = RunningPid(backends[threads[t].b].core)]]
    /\ UNCHANGED <<core, procs, file, ncalls, syncVars, logVars, ctlVars>>

\* SingBox.SyncUser and SingBox.SyncUsers: s.mu taken, the configuration
\* updated, then s.core.Restart under s.mu; there is no test of s.core.
\* SingBox.Restart: s.mu taken, s.core tested, then s.core.Restart.
SyncLock(t) ==
    LET b == threads[t].b
        k == backends[b].core
    IN /\ threads[t].pc = "sync_lock"
       /\ backends[b].mu = NoThread
       /\ IF k = 0
          THEN /\ threads' = [threads EXCEPT
                     ![t] = IF threads[t].op = "Restart"
                            THEN [@ EXCEPT !.pc = "idle", !.ret = ErrNotInitialized,
                                           !.res = ErrNotInitialized]
                            ELSE [@ EXCEPT !.pc = "idle", !.ret = ErrNilCore,
                                           !.res = ErrNilCore]]
               /\ UNCHANGED backends
          ELSE /\ backends' = [backends EXCEPT ![b].mu = t]
               /\ threads' = [threads EXCEPT
                     ![t].core = k,
                     ![t].pid0 = RunningPid(k),
                     ![t].pc = "restart_check",
                     ![t].stack = <<"sync_done">>]
       /\ UNCHANGED <<core, procs, file, ncalls, syncVars, logVars, ctl, scopes, now>>

\* SingBox.Logs: s.mu read-locked, then s.core.Logs() with no test of s.core.
BackendLogs(t) ==
    LET b == threads[t].b
    IN /\ threads[t].pc = "logs_lock"
       /\ backends[b].mu = NoThread
       /\ threads' = [threads EXCEPT
             ![t] = IF backends[b].core = 0
                    THEN [@ EXCEPT !.pc = "idle", !.ret = ErrNilCore, !.res = ErrNilCore]
                    ELSE [@ EXCEPT !.pc = "idle", !.ret = Ok, !.res = Ok]]
       /\ UNCHANGED <<core, procs, file, ncalls, syncVars, logVars, ctlVars>>

\* SyncUser and SyncUsers return what Restart returned; s.mu is released.
SyncDone(t) ==
    /\ threads[t].pc = "sync_done"
    /\ backends' = [backends EXCEPT ![threads[t].b].mu = NoThread]
    /\ threads' = [threads EXCEPT ![t] = Return(@, threads[t].ret)]
    /\ UNCHANGED <<core, procs, file, ncalls, syncVars, logVars, ctl, scopes, now>>

\* Controller.BaseInfoResponse: c.mu taken and kept; without a backend the
\* response is complete.
BaseInfoLock(t) ==
    /\ threads[t].pc = "bi_lock"
    /\ CtlFree
    /\ IF ctl.backend = 0
       THEN /\ threads' = [threads EXCEPT ![t] = Return(@, Ok)]
            /\ UNCHANGED ctl
       ELSE /\ ctl' = [ctl EXCEPT !.mu = t]
            /\ threads' = [threads EXCEPT ![t].pc = "bi_started", ![t].b = ctl.backend]
    /\ UNCHANGED <<core, procs, file, ncalls, syncVars, logVars, backends, scopes, now>>

\* c.backend.Started() under c.mu: s.mu read-locked, then Core.Started under
\* the supervisor's mutex.
BaseInfoStarted(t) ==
    LET b == threads[t].b
    IN /\ threads[t].pc = "bi_started"
       /\ backends[b].mu = NoThread
       /\ backends[b].core # 0 => MuFree(backends[b].core)
       /\ threads' = [threads EXCEPT ![t].pc = "bi_version"]
       /\ UNCHANGED <<core, procs, file, ncalls, syncVars, logVars, ctlVars>>

\* c.backend.Version() under c.mu, then c.mu released and the response returned.
BaseInfoVersion(t) ==
    LET b == threads[t].b
    IN /\ threads[t].pc = "bi_version"
       /\ backends[b].mu = NoThread
       /\ ctl' = [ctl EXCEPT !.mu = NoThread]
       /\ threads' = [threads EXCEPT ![t] = Return(@, Ok)]
       /\ UNCHANGED <<core, procs, file, ncalls, syncVars, logVars, backends, scopes, now>>

FacadeNext ==
    \/ RestStart(Starter)
    \/ SyncUsersCall(Starter)
    \/ SyncUserCall(Starter)
    \/ BaseInfoCall(Starter)
    \/ RestartCall(Starter)
    \/ LogsCall(Starter)
    \/ ServiceStop(Stopper)
    \/ \E t \in Clients : ServiceCheck(t)
    \/ \E t \in Clients : Connect(t)
    \/ \E t \in Clients : DisconnectCancel(t)
    \/ \E t \in Clients : DisconnectRead(t)
    \/ \E t \in Clients : ShutdownLock(t)
    \/ \E t \in Clients : ShutdownDone(t)
    \/ \E t \in Clients : DisconnectClear(t)
    \/ \E t \in Clients : StartBackendLock(t)
    \/ \E t \in Clients : StartBackendDone(t)
    \/ \E t \in Clients : SyncBackend(t)
    \/ \E t \in Clients : SyncUserEmpty(t)
    \/ \E t \in Clients : SyncLock(t)
    \/ \E t \in Clients : SyncDone(t)
    \/ \E t \in Clients : BackendLogs(t)
    \/ \E t \in Clients : BaseInfoLock(t)
    \/ \E t \in Clients : BaseInfoStarted(t)
    \/ \E t \in Clients : BaseInfoVersion(t)
    \/ \E t \in Clients : StartWrite(t)
    \/ \E t \in Clients : StartLocked(t)
    \/ \E t \in Clients : StopLock(t)
    \/ \E t \in Clients : StopWaitDone(t)
    \/ \E t \in Clients : StopWaitTimeout(t)
    \/ \E t \in Clients : RestartCheck(t)
    \/ \E t \in Clients : RestartDefer(t)
    \/ \E p \in DOMAIN procs : ProcExit(p)
    \/ \E p \in DOMAIN procs : Reap(p)

SpecFacade == Init /\ [][FacadeNext]_vars

\* C15 as claimed: when SyncUser or SyncUsers, called on a Backend whose
\* subprocess was running, returns an error, that Backend's supervisor has a
\* live subprocess and the Controller still references the Backend.  The
\* statement is taken in its weakest reading: no other client has made any
\* request, so nothing but the sync request itself has acted on the Backend.
C15_SyncErrorKeepsBackendRunning ==
    [][\A t \in Clients :
          (/\ threads[t].pc \in {"sync_lock", "sync_done"} /\ threads'[t].pc = "idle"
           /\ threads'[t].pid0 # 0
           /\ \A u \in Clients \ {t} : threads[u].op = ""
           /\ threads'[t].res # Ok)
          => LET k == threads'[t].core
             IN /\ core'[k].process # 0
                /\ procs'[core'[k].process].alive
                /\ ctl'.backend = threads[t].b
      ]_vars

\* C23 as claimed: an operation invoked on a Backend after its Shutdown
\* returns an error or a zero value; it never dereferences the discarded
\* supervisor.
C23_ShutdownBackendSafe ==
    \A t \in Clients : threads[t].res # ErrNilCore

\* What does hold after Shutdown: Restart answers with its own error, a second
\* Shutdown does nothing, the status reads see "not started", and none of the
\* calls starts a subprocess: a Backend without supervisor tracks none.
ShutdownBackendStartsNothing ==
    /\ \A t \in Clients :
          threads[t].res \in {ErrNilCore, ErrNotInitialized} => threads[t].spawned = 0
    /\ \A b \in DOMAIN backends :
          backends[b].core = 0 => backends[b].mu = NoThread

\* C18 as claimed: no operation holds the Controller's lock while it waits for
\* the lock of a Backend that a Shutdown in progress holds.
C18_NoControllerLockWhileTeardown ==
    \A t \in DOMAIN threads :
        (ctl.mu = t /\ threads[t].pc \in {"bi_started", "bi_version"}) =>
            LET holder == backends[threads[t].b].mu
            IN holder = NoThread
                 \/ threads[holder].pc \notin {"stop_lock", "stop_wait", "shut_done"}
                 \/ threads[holder].op \notin {"Stop", "Start"}

(***************************************************************************)
(* Log capture: the capture tasks offer every line of the subprocess's     *)
(* streams to the supervisor's queue, a subscriber reads from it           *)
(* (SpecLogs).  Lines are numbered in capture order.                       *)
(***************************************************************************)
\* The non-blocking send of captureLogs: the line enters the queue when
\* there is room, and is dropped when the queue is full.
captureLogs(queue, line) ==
    IF Len(queue) < LogBufferSize THEN Append(queue, line) ELSE queue

\* One iteration of captureLogs' loop, of either stream's task.
Capture ==
    /\ ~captureDone
    /\ captured < MaxLines
    /\ captured' = captured + 1
    /\ logsChan' = captureLogs(logsChan, captured + 1)
    /\ UNCHANGED <<received, captureDone, syncVars, coreVars, ctlVars>>

\* A subscriber receives from the channel that Logs() returned.
ReceiveLog ==
    /\ logsChan # <<>>
    /\ received' = Append(received, Head(logsChan))
    /\ logsChan' = Tail(logsChan)
    /\ UNCHANGED <<captured, captureDone, syncVars, coreVars, ctlVars>>

\* The capture scope is cancelled (Stop): the tasks return at their next line.
CancelLogs ==
    /\ ~captureDone
    /\ captureDone' = TRUE
    /\ UNCHANGED <<logsChan, captured, received, syncVars, coreVars, ctlVars>>

LogsNext == Capture \/ ReceiveLog \/ CancelLogs

SpecLogs == CoreInit /\ [][LogsNext]_vars

\* C17 as claimed: the queue holds the most recently captured lines, in
\* capture order: its lines are the last Len(logsChan) lines captured.
C17_QueueHoldsMostRecent ==
    \A i \in 1..Len(logsChan) : logsChan[i] = captured - Len(logsChan) + i

\* What the queue does keep: its lines are in capture order, none newer than
\* the last line captured, and every line read is older than every line queued.
LogsInCaptureOrder ==
    LET all == received \o logsChan
    IN /\ \A i \in 1..Len(all) : all[i] \in 1..captured
       /\ \A i, j \in 1..Len(all) : i < j => all[i] < all[j]

(***************************************************************************)
(* Every user of the locks together: Start, Stop, SyncUser, SyncUsers,     *)
(* Restart and BaseInfo requests, NewRequest and the watchdogs            *)
(* (SpecLocks).                                                            *)
(***************************************************************************)
LockRequest(t, op, pc, variant, keepAlive) ==
    /\ threads[t].pc = "idle"
    /\ ncalls < MaxLockCalls
    /\ ncalls' = ncalls + 1
    /\ threads' = [threads EXCEPT
          ![t] = [IdleThread EXCEPT !.op = op, !.pc = pc, !.cfg = ncalls + 1,
                                    !.variant = variant, !.keepAlive = keepAlive]]
    /\ UNCHANGED <<core, procs, file, syncVars, logVars, ctlVars>>

\* A Start request with a keepalive, so that its session has a watchdog; every
\* Connect makes a scope, and there are watchdogs for MaxSessionCalls of them.
LockStart(t) ==
    /\ Len(scopes) <= MaxSessionCalls
    /\ \E variant \in {"rest", "rpc"}, keepAlive \in KeepAlives \ {0} :
          LockRequest(t, "Start", "svc_check", variant, keepAlive)

LockStop(t) == LockRequest(t, "Stop", "disc_cancel", "", 0)

LockSync(t) ==
    \E op \in {"SyncUser", "SyncUsers", "Restart"} :
        LockRequest(t, op, "sync_backend", "", 0)

\* A status request; it changes nothing, and any number of them come.
LockBaseInfo(t) ==
    /\ threads[t].pc = "idle"
    /\ threads' = [threads EXCEPT ![t] = [IdleThread EXCEPT !.op = "BaseInfo", !.pc = "bi_lock"]]
    /\ UNCHANGED <<core, procs, file, ncalls, syncVars, logVars, ctlVars>>

\* What a handler does once its request is in.
LockStep(t) ==
    \/ ServiceCheck(t)
    \/ Connect(t)
    \/ DisconnectCancel(t)
    \/ DisconnectRead(t)
    \/ ShutdownLock(t)
    \/ ShutdownDone(t)
    \/ DisconnectClear(t)
    \/ StartBackendLock(t)
    \/ StartBackendDone(t)
    \/ StartWrite(t)
    \/ StartLocked(t)
    \/ StopLock(t)
    \/ StopWaitDone(t)
    \/ StopWaitTimeout(t)
    \/ SyncBackend(t)
    \/ SyncUserEmpty(t)
    \/ SyncLock(t)
    \/ SyncDone(t)
    \/ BaseInfoLock(t)
    \/ BaseInfoStarted(t)
    \/ BaseInfoVersion(t)
    \/ RestartCheck(t)
    \/ RestartDefer(t)

LocksNext ==
    \/ LockStart(Starter)
    \/ LockSync(Starter)
    \/ LockStop(Stopper)
    \/ LockBaseInfo(Stopper)
    \/ \E t \in SessionThreads : LockStep(t)
    \/ \E w \in Watchdogs : WatchdogStep(w)
    \/ \E p \in DOMAIN procs : ProcExit(p)
    \/ \E p \in DOMAIN procs : Reap(p)
    \/ NewRequest
    \/ Tick

SpecLocks == SessionInit /\ [][LocksNext]_vars

\* The thread holding the lock that t must take at its position; NoThread
\* when the lock is free or t needs none.
WaitsFor(t) ==
    LET pc == threads[t].pc
        b == threads[t].b
        k == threads[t].core
    IN IF pc \in {"svc_check", "connect", "disc_read", "disc_clear", "sb_lock",
                  "sync_backend", "bi_lock", "wd_read"}
       THEN ctl.mu
       ELSE IF pc \in {"shut_lock", "sync_lock", "bi_version"}
       THEN backends[b].mu
       ELSE IF pc = "bi_started"
       THEN IF backends[b].mu # NoThread THEN backends[b].mu
            ELSE IF backends[b].core # 0 THEN core[backends[b].core].mu
            ELSE NoThread
       ELSE IF pc \in {"start_lock", "stop_lock", "restart_check", "restart_defer"}
       THEN core[k].mu
       ELSE NoThread

Running(t) == threads[t].pc \notin {"idle", "off", "done"}

\* The holder t waits for is running and, following the waits at most n
\* threads further, one is reached that waits for no lock.
RECURSIVE Unblocks(_, _)
Unblocks(t, n) ==
    LET h == WaitsFor(t)
    IN \/ h = NoThread
       \/ /\ n > 0
          /\ Running(h)
          /\ Unblocks(h, n - 1)

\* C22: no operation waits forever for a lock.  Every lock a thread waits for
\* is held by a running thread, the chain of waits ends at a thread that waits
\* for no lock, and a running thread that waits for no lock has a step to take
\* (Stop's wait ends with the subprocess's exit or its timeout); the
\* Controller's lock, which NewRequest and the sampler take, is held only by
\* such threads.
C22_NoLockWaitsForever ==
    /\ \A t \in DOMAIN threads :
          /\ Unblocks(t, Cardinality(DOMAIN threads))
          /\ (Running(t) /\ WaitsFor(t) = NoThread) =>
                ENABLED (LockStep(t) \/ WatchdogStep(t))
    /\ ctl.mu # NoThread => Running(ctl.mu)
    /\ \A b \in DOMAIN backends : backends[b].mu # NoThread => Running(backends[b].mu)
    /\ \A k \in DOMAIN core : core[k].mu # NoThread => Running(core[k].mu)

\* A chain of waits: a thread waits for a lock whose holder waits for the
\* lock of a third thread, which is inside Stop's bounded wait.
C22_Witness ==
    \E t \in DOMAIN threads :
        LET h == WaitsFor(t)
        IN /\ Running(t)
           /\ h \notin {NoThread, t}
           /\ WaitsFor(h) \notin {NoThread, h, t}
           /\ threads[WaitsFor(h)].pc = "stop_wait"

=============================================================================
